---------------------------- MODULE Spec2Model ----------------------------
(***************************************************************************)
(* Dishcovery backend: the account and recipe handlers of the Express      *)
(* application (controllers/userController.js, controllers/authController, *)
(* controllers/recipeController.js, routes/recipeRoutes.js) over the       *)
(* Sequelize models User, Recipe and Favorite.                             *)
(*                                                                         *)
(* A handler is a sequence of awaits.  Every await that touches the data   *)
(* store is one atomic step of the model; the computation between two      *)
(* awaits belongs to the step of the await that precedes it.  call[p]      *)
(* holds the position and the locals of the request process p is serving,  *)
(* result holds the response of the handler that returned in the last      *)
(* step.  deleted is a history variable: the ids of the recipes removed so *)
(* far.                                                                    *)
(*                                                                         *)
(* Strings are sequences of characters, JavaScript values are tagged       *)
(* records (undefined, string, number, array).                             *)
(***************************************************************************)
EXTENDS Integers, Sequences, FiniteSets, TLC

VARIABLES users, recipes, favorites, nextUserId, nextRecipeId, call, result,
          deleted

vars == <<users, recipes, favorites, nextUserId, nextRecipeId, call, result, deleted>>

(***************************************************************************)
(* Bounds of the model.                                                    *)
(***************************************************************************)
MaxUsers == 2        \* rows ever inserted into Users
MaxRecipes == 2      \* rows ever inserted into Recipes
NumSalts == 1        \* distinct salts bcrypt.hash may draw
NumProcs == 2        \* requests served at the same time (SpecConc)
MaxRecipesEdited == 1  \* rows ever inserted into Recipes in SpecRecipe

(***************************************************************************)
(* Program constants.                                                      *)
(***************************************************************************)
MinPasswordLength == 6
MaxRating == 5

Procs == 1 .. NumProcs
Salts == {ToString(i) : i \in 1 .. NumSalts}
Roles == {"user", "admin"}

(***************************************************************************)
(* JavaScript values.                                                      *)
(***************************************************************************)
Undefined == [t |-> "undefined"]
Str(s) == [t |-> "string", s |-> s]
Num(n) == [t |-> "number", n |-> n]
NaN == [t |-> "NaN"]
Null == [t |-> "null"]
Arr(a) == [t |-> "array", a |-> a]

\* JavaScript truthiness: undefined, null, "", 0 and NaN are falsy.
Truthy(v) ==
  CASE v.t = "undefined" -> FALSE
    [] v.t = "null" -> FALSE
    [] v.t = "string" -> v.s # <<>>
    [] v.t = "number" -> v.n # 0
    [] v.t = "NaN" -> FALSE
    [] OTHER -> TRUE

(***************************************************************************)
(* String.prototype.toLowerCase and String.prototype.trim.                 *)
(***************************************************************************)
LowerChar(c) ==
  CASE c = "A" -> "a"
    [] c = "B" -> "b"
    [] c = "X" -> "x"
    [] OTHER -> c

ToLowerCase(s) == [i \in 1 .. Len(s) |-> LowerChar(s[i])]

IsSpace(c) == c = " "

RECURSIVE TrimStart(_)
TrimStart(s) ==
  IF s # <<>> /\ IsSpace(Head(s)) THEN TrimStart(Tail(s)) ELSE s

RECURSIVE TrimEnd(_)
TrimEnd(s) ==
  IF s # <<>> /\ IsSpace(s[Len(s)]) THEN TrimEnd(SubSeq(s, 1, Len(s) - 1)) ELSE s

Trim(s) == TrimEnd(TrimStart(s))

(***************************************************************************)
(* parseInt, parseFloat and JSON.parse.  A JSON text is a sequence of      *)
(* tokens: "[" and "]", the elements of an array, the digits of a number.  *)
(* The numbers of the model carry no fraction and numeric fields are       *)
(* undefined, strings or numbers.                                          *)
(***************************************************************************)
Digits == {"0", "1", "2", "3", "4", "5", "6", "7", "8", "9"}

DigitValue(c) ==
  CASE c = "0" -> 0 [] c = "1" -> 1 [] c = "2" -> 2 [] c = "3" -> 3 [] c = "4" -> 4
    [] c = "5" -> 5 [] c = "6" -> 6 [] c = "7" -> 7 [] c = "8" -> 8 [] c = "9" -> 9

\* The longest prefix of digits.
RECURSIVE DigitPrefix(_)
DigitPrefix(s) ==
  IF s # <<>> /\ Head(s) \in Digits THEN <<Head(s)>> \o DigitPrefix(Tail(s)) ELSE <<>>

RECURSIVE DigitsValue(_)
DigitsValue(s) ==
  IF s = <<>> THEN 0 ELSE 10 * DigitsValue(SubSeq(s, 1, Len(s) - 1)) + DigitValue(s[Len(s)])

\* parseInt of a string: leading white space, a sign, the digits that follow.
ParseIntString(s) ==
  LET t == TrimStart(s)
      neg == t # <<>> /\ Head(t) = "-"
      d == DigitPrefix(IF neg THEN Tail(t) ELSE t)
  IN IF d = <<>> THEN NaN
     ELSE Num(IF neg THEN 0 - DigitsValue(d) ELSE DigitsValue(d))

ParseInt(v) ==
  CASE v.t = "string" -> ParseIntString(v.s)
    [] v.t = "number" -> v
    [] OTHER -> NaN

ParseFloat(v) == ParseInt(v)

\* JSON.parse(s): [ok |-> FALSE] when it throws.
JSONParse(s) ==
  IF Len(s) >= 2 /\ s[1] = "[" /\ s[Len(s)] = "]"
      /\ \A i \in 2 .. Len(s) - 1 : s[i] \notin {"[", "]"}
    THEN [ok |-> TRUE, v |-> Arr(SubSeq(s, 2, Len(s) - 1))]
  ELSE IF s # <<>> /\ DigitPrefix(s) = s
    THEN [ok |-> TRUE, v |-> Num(DigitsValue(s))]
  ELSE [ok |-> FALSE]

\* parseJSONField of the controller.
ParseJSONField(field) ==
  IF ~Truthy(field) THEN Null
  ELSE IF field.t = "array" THEN field
  ELSE IF field.t = "string" /\ JSONParse(field.s).ok THEN JSONParse(field.s).v
  ELSE field

(***************************************************************************)
(* The e-mail syntax tests.                                                *)
(***************************************************************************)
\* [^\s@]+ : a non-empty run without white space and without "@"
NoSpaceNoAt(s) == s # <<>> /\ \A i \in 1 .. Len(s) : ~IsSpace(s[i]) /\ s[i] # "@"

\* /^[^\s@]+@[^\s@]+\.[^\s@]+$/.test(s)
EmailRegexTest(s) ==
  \E i \in 1 .. Len(s) : \E j \in (i + 1) .. Len(s) :
    /\ s[i] = "@"
    /\ s[j] = "."
    /\ NoSpaceNoAt(SubSeq(s, 1, i - 1))
    /\ NoSpaceNoAt(SubSeq(s, i + 1, j - 1))
    /\ NoSpaceNoAt(SubSeq(s, j + 1, Len(s)))

\* Sequelize's validate: { isEmail: true }: the same shape, and the top-level
\* domain (what follows the last dot) has at least two characters.
IsEmail(s) ==
  /\ EmailRegexTest(s)
  /\ \E j \in 1 .. Len(s) :
       /\ s[j] = "."
       /\ \A k \in (j + 1) .. Len(s) : s[k] # "."
       /\ Len(s) - j >= 2

(***************************************************************************)
(* bcryptjs.  A hash string is the version-and-cost prefix, the salt and   *)
(* the digest; the digest of a string is modelled by the string itself     *)
(* (an injective digest).                                                  *)
(***************************************************************************)
BcryptPrefix == "$2a$10$"

BcryptHash(s, salt) == <<BcryptPrefix, salt>> \o s

\* A comparison that accepts every password.
BcryptCompareAlwaysTrue(s, hash) == TRUE

\* bcrypt.compare(s, hash): hash s with the salt found in hash and compare.
BcryptCompare(s, hash) ==
  /\ Len(hash) >= 2
  /\ hash[1] = BcryptPrefix
  /\ BcryptHash(s, hash[2]) = hash

(***************************************************************************)
(* The data store.                                                         *)
(***************************************************************************)
Store == [users |-> users, recipes |-> recipes, favorites |-> favorites]

Without(f, id) == [i \in DOMAIN f \ {id} |-> f[i]]

\* A lookup that finds nobody.
FindNoUser(email) == {}

\* User.findOne({ where: { email } }): the comparison is exact.
FindUsersByEmail(email) == {i \in DOMAIN users : users[i].email = email}

\* A table without the index.
EmailUniqueNoIndex(id, email) == TRUE

\* The unique index on Users.email: no other row holds the e-mail.
EmailUnique(id, email) == \A i \in DOMAIN users : i # id => users[i].email # email

\* DELETE FROM "Recipes" WHERE id IN ids, with ON DELETE CASCADE on
\* Favorites.recipeId.
RecipesAfterDelete(ids) == [i \in DOMAIN recipes \ ids |-> recipes[i]]

\* A foreign key without ON DELETE CASCADE that is not enforced.
FavoritesKept(ids) == favorites

FavoritesAfterRecipeDelete(ids) == {f \in favorites : f.recipeId \notin ids}

RecipesOf(userId) == {i \in DOMAIN recipes : recipes[i].userId = userId}

(***************************************************************************)
(* Requests and responses.                                                 *)
(***************************************************************************)
Idle == [pc |-> "idle"]
NoResult == [op |-> "none"]

IsIdle(p) == call[p].pc = "idle"

\* process.env.NODE_ENV of the deployed service.
NodeEnv == "production"

\* error.message of a caught error.
ErrorMessage == <<"error.message">>

\* The details field that the catch block of a handler sends with its 500:
\* sign-up and login send the message in development only, the handlers of
\* the user and recipe controllers send it always.
CaughtDetails(op) ==
  IF op \in {"signup", "login"}
    THEN IF NodeEnv = "development" THEN Str(ErrorMessage) ELSE Undefined
  ELSE IF op = "toggleFavorite" THEN Undefined
  ELSE Str(ErrorMessage)

\* The handler of p returns: its response, with the store as it was when
\* the request arrived.
Return(p, op, req, status, pre) ==
  /\ call' = [call EXCEPT ![p] = Idle]
  /\ result' = [op |-> op, req |-> req, status |-> status, pre |-> pre,
                details |-> IF status = 500 THEN CaughtDetails(op) ELSE Undefined]

\* The handler of p returns a response whose body the claims look into.
Respond(p, op, req, status, pre, body) ==
  /\ call' = [call EXCEPT ![p] = Idle]
  /\ result' = [op |-> op, req |-> req, status |-> status, pre |-> pre,
                body |-> body]

\* The handler of p goes on to its next await.
Continue(p, next) ==
  /\ call' = [call EXCEPT ![p] = next]
  /\ result' = NoResult

StoreUnchanged ==
  UNCHANGED <<users, recipes, favorites, nextUserId, nextRecipeId, deleted>>

\* History: the ids of the recipes that a step removes join deleted.
Removed(ids) == deleted' = deleted \cup (ids \cap DOMAIN recipes)

Init ==
  /\ users = <<>>
  /\ recipes = <<>>
  /\ favorites = {}
  /\ nextUserId = 1
  /\ nextRecipeId = 1
  /\ deleted = {}
  /\ call = [p \in Procs |-> Idle]
  /\ result = NoResult

(***************************************************************************)
(* POST /api/auth/signup                                                   *)
(***************************************************************************)
\* A hook that stores the password as submitted.
BeforeCreatePlain(password, salt) == password

\* generateToken: the claims of the signed token.
GenerateToken(user) == [id |-> user.id, email |-> user.email, role |-> user.role]

\* A response that serialises the whole row.
AuthUserWholeRow(user) == user

\* The user object of the sign-up and login responses.
AuthUser(user) ==
  [id |-> user.id, firstName |-> user.firstName, lastName |-> user.lastName,
   email |-> user.email, role |-> user.role]

\* User.beforeCreate: the password is hashed once.
BeforeCreate(password, salt) ==
  IF password # <<>> THEN BcryptHash(password, salt) ELSE password

Signup(p, body) ==
  /\ IsIdle(p)
  /\ nextUserId <= MaxUsers
  /\ StoreUnchanged
  /\ IF ~Truthy(body.firstName) \/ ~Truthy(body.lastName)
        \/ ~Truthy(body.email) \/ ~Truthy(body.password)
       THEN Return(p, "signup", body, 400, Store)
     ELSE IF Len(body.password.s) < MinPasswordLength
       THEN Return(p, "signup", body, 400, Store)
     ELSE IF FindUsersByEmail(body.email.s) # {}
       THEN Return(p, "signup", body, 400, Store)
     ELSE Continue(p, [pc |-> "signup_create", op |-> "signup", req |-> body,
                       pre |-> Store])

\* await User.create({ firstName, lastName, email, password, role: "user" })
SignupCreate(p, salt) ==
  /\ call[p].pc = "signup_create"
  /\ LET body == call[p].req
         row == [id |-> nextUserId,
                 firstName |-> body.firstName.s,
                 lastName |-> body.lastName.s,
                 email |-> body.email.s,
                 password |-> BeforeCreate(body.password.s, salt),
                 role |-> "user"]
     IN IF ~IsEmail(body.email.s)
          THEN \* SequelizeValidationError, caught: 500
               /\ StoreUnchanged
               /\ Return(p, "signup", body, 500, call[p].pre)
        ELSE IF ~EmailUnique(nextUserId, body.email.s)
          THEN \* SequelizeUniqueConstraintError, caught: 500; the sequence
               \* value of the rejected INSERT is spent
               /\ nextUserId' = nextUserId + 1
               /\ UNCHANGED <<users, recipes, favorites, nextRecipeId, deleted>>
               /\ Return(p, "signup", body, 500, call[p].pre)
        ELSE /\ users' = (nextUserId :> row) @@ users
             /\ nextUserId' = nextUserId + 1
             /\ UNCHANGED <<recipes, favorites, nextRecipeId, deleted>>
             /\ Respond(p, "signup", body, 201, call[p].pre,
                        [token |-> GenerateToken(row), user |-> AuthUser(row)])

(***************************************************************************)
(* POST /api/auth/login                                                    *)
(***************************************************************************)
\* The status login answers in the current store.
LoginStatus(email, password) ==
  IF ~Truthy(email) \/ ~Truthy(password) THEN 400
  ELSE IF FindUsersByEmail(email.s) = {} THEN 404
  ELSE LET user == users[CHOOSE i \in FindUsersByEmail(email.s) : TRUE]
       IN IF BcryptCompare(password.s, user.password) THEN 200 ELSE 400

Login(p, body) ==
  /\ IsIdle(p)
  /\ StoreUnchanged
  /\ IF LoginStatus(body.email, body.password) = 200
       THEN LET user == users[CHOOSE i \in FindUsersByEmail(body.email.s) : TRUE]
            IN Respond(p, "login", body, 200, Store,
                       [token |-> GenerateToken(user), user |-> AuthUser(user)])
       ELSE Return(p, "login", body, LoginStatus(body.email, body.password), Store)

(***************************************************************************)
(* PUT /api/users/me                                                       *)
(***************************************************************************)
\* The updates object updateProfile builds from the body (the e-mail is
\* added after the uniqueness check).
ProfileUpdates(body) ==
  [firstName |-> IF Truthy(body.firstName) THEN Str(Trim(body.firstName.s)) ELSE Undefined,
   lastName |-> IF Truthy(body.lastName) THEN Str(Trim(body.lastName.s)) ELSE Undefined,
   email |-> IF Truthy(body.email) THEN Str(Trim(ToLowerCase(body.email.s))) ELSE Undefined]

\* instance.set(updates): the instance's values after the assignment.
SetValues(row, updates) ==
  [f \in DOMAIN row |->
     IF f \in DOMAIN updates /\ updates[f].t # "undefined" THEN updates[f].s ELSE row[f]]

\* instance.changed(): the attributes whose value differs from the one
\* loaded.
Changed(row, new) == {f \in DOMAIN row : new[f] # row[f]}

\* UPDATE "Users" SET <changed fields> WHERE id = row.id
UsersAfterUpdate(row, new) ==
  IF row.id \in DOMAIN users
    THEN [users EXCEPT ![row.id] =
            [f \in DOMAIN row |-> IF f \in Changed(row, new) THEN new[f] ELSE @[f]]]
    ELSE users

\* A hook that hashes the password on every update.
BeforeUpdateAlways(row, new, salt) ==
  [new EXCEPT !.password = BcryptHash(new.password, salt)]

\* User.beforeUpdate: when the password attribute changed, what is about to
\* be written is hashed.
BeforeUpdate(row, new, salt) ==
  IF "password" \in Changed(row, new)
    THEN [new EXCEPT !.password = BcryptHash(new.password, salt)]
    ELSE new

UpdateProfile(p, userId, body) ==
  /\ IsIdle(p)
  /\ StoreUnchanged
  /\ LET req == [userId |-> userId, body |-> body]
     IN IF ~Truthy(body.firstName) /\ ~Truthy(body.lastName) /\ ~Truthy(body.email)
          THEN Return(p, "updateProfile", req, 400, Store)
        ELSE IF userId \notin DOMAIN users
          THEN Return(p, "updateProfile", req, 404, Store)
        ELSE IF Truthy(body.email) /\ ~EmailRegexTest(body.email.s)
          THEN Return(p, "updateProfile", req, 400, Store)
        ELSE Continue(p, [pc |-> IF Truthy(body.email) THEN "profile_check"
                                                      ELSE "profile_write",
                          op |-> "updateProfile", req |-> req, pre |-> Store,
                          user |-> users[userId],
                          updates |-> [ProfileUpdates(body) EXCEPT !.email = Undefined]])

\* A handler that writes the names before it looks the e-mail up.
UpdateProfileCheckEager(p) ==
  /\ call[p].pc = "profile_check"
  /\ LET email == ProfileUpdates(call[p].req.body).email
         existing == FindUsersByEmail(email.s)
         row == call[p].user
     IN IF existing # {} /\ (CHOOSE i \in existing : TRUE) # call[p].req.userId
          THEN /\ users' = UsersAfterUpdate(row, SetValues(row, call[p].updates))
               /\ UNCHANGED <<recipes, favorites, nextUserId, nextRecipeId, deleted>>
               /\ Return(p, "updateProfile", call[p].req, 409, call[p].pre)
          ELSE /\ StoreUnchanged
               /\ Continue(p, [call[p] EXCEPT !.pc = "profile_write",
                                                !.updates.email = email])

\* await User.findOne({ where: { email: email.toLowerCase().trim() } })
UpdateProfileCheck(p) ==
  /\ call[p].pc = "profile_check"
  /\ StoreUnchanged
  /\ LET email == ProfileUpdates(call[p].req.body).email
         existing == FindUsersByEmail(email.s)
     IN IF existing # {} /\ (CHOOSE i \in existing : TRUE) # call[p].req.userId
          THEN Return(p, "updateProfile", call[p].req, 409, call[p].pre)
          ELSE Continue(p, [call[p] EXCEPT !.pc = "profile_write",
                                           !.updates.email = email])

\* await user.update(updates), the beforeUpdate hook included
\* The user object of the profile responses.
ProfileUser(user) ==
  [id |-> user.id, firstName |-> user.firstName, lastName |-> user.lastName,
   email |-> user.email]

UpdateProfileWrite(p) ==
  /\ call[p].pc = "profile_write"
  /\ \E salt \in Salts :
     LET row == call[p].user
         new == BeforeUpdate(row, SetValues(row, call[p].updates), salt)
     IN IF "email" \in Changed(row, new) /\ ~IsEmail(new.email)
          THEN \* SequelizeValidationError, caught: 500
               /\ StoreUnchanged
               /\ Return(p, "updateProfile", call[p].req, 500, call[p].pre)
        ELSE IF "email" \in Changed(row, new) /\ row.id \in DOMAIN users
                /\ ~EmailUnique(row.id, new.email)
          THEN \* SequelizeUniqueConstraintError, caught: 500
               /\ StoreUnchanged
               /\ Return(p, "updateProfile", call[p].req, 500, call[p].pre)
        ELSE /\ users' = UsersAfterUpdate(row, new)
             /\ UNCHANGED <<recipes, favorites, nextUserId, nextRecipeId, deleted>>
             /\ Respond(p, "updateProfile", call[p].req, 200, call[p].pre,
                        [user |-> ProfileUser(new)])

(***************************************************************************)
(* GET /api/users/me and GET /api/users/:id                                *)
(***************************************************************************)
\* findByPk(id, { attributes }): the row restricted to the attributes.
Attributes(row, attributes) == [f \in attributes |-> row[f]]

CurrentUserAttributes == {"id", "firstName", "lastName", "email"}
PublicAttributes == {"id", "firstName", "lastName"}

GetCurrentUser(p, userId) ==
  /\ IsIdle(p)
  /\ StoreUnchanged
  /\ IF userId \notin DOMAIN users
       THEN Return(p, "getCurrentUser", [userId |-> userId], 404, Store)
       ELSE Continue(p, [pc |-> "me_recipes", op |-> "getCurrentUser",
                         req |-> [userId |-> userId], pre |-> Store,
                         user |-> Attributes(users[userId], CurrentUserAttributes)])

\* await Recipe.count({ where: { userId } })
GetCurrentUserRecipes(p) ==
  /\ call[p].pc = "me_recipes"
  /\ StoreUnchanged
  /\ Continue(p, [call[p] EXCEPT !.pc = "me_favorites"] @@
                   [recipesCreated |-> Cardinality(RecipesOf(call[p].req.userId))])

\* await Favorite.count({ where: { userId } }) and the response
GetCurrentUserFavorites(p) ==
  /\ call[p].pc = "me_favorites"
  /\ StoreUnchanged
  /\ LET user == call[p].user
     IN Respond(p, "getCurrentUser", call[p].req, 200, call[p].pre,
                [id |-> user.id, firstName |-> user.firstName,
                 lastName |-> user.lastName, email |-> user.email,
                 stats |-> [recipesCreated |-> call[p].recipesCreated,
                            favorites |-> Cardinality({f \in favorites :
                                            f.userId = call[p].req.userId}),
                            reviews |-> 0]])

\* The body of the public profile.
PublicProfile(user, recipesCount) ==
  [id |-> user.id, firstName |-> user.firstName, lastName |-> user.lastName,
   recipesCount |-> recipesCount]

GetUserById(p, id) ==
  /\ IsIdle(p)
  /\ StoreUnchanged
  /\ IF id \notin DOMAIN users
       THEN Return(p, "getUserById", [id |-> id], 404, Store)
       ELSE Continue(p, [pc |-> "user_count", op |-> "getUserById",
                         req |-> [id |-> id], pre |-> Store,
                         user |-> Attributes(users[id], PublicAttributes)])

\* await Recipe.count({ where: { userId: id } }) and the response
GetUserByIdCount(p) ==
  /\ call[p].pc = "user_count"
  /\ StoreUnchanged
  /\ Respond(p, "getUserById", call[p].req, 200, call[p].pre,
             PublicProfile(call[p].user, Cardinality(RecipesOf(call[p].req.id))))

(***************************************************************************)
(* PUT /api/users/me/password                                              *)
(***************************************************************************)
ChangePassword(p, userId, body) ==
  /\ IsIdle(p)
  /\ StoreUnchanged
  /\ LET req == [userId |-> userId, body |-> body]
     IN IF ~Truthy(body.oldPassword) \/ ~Truthy(body.newPassword)
          THEN Return(p, "changePassword", req, 400, Store)
        ELSE IF Len(body.newPassword.s) < MinPasswordLength
          THEN Return(p, "changePassword", req, 400, Store)
        ELSE IF userId \notin DOMAIN users
          THEN Return(p, "changePassword", req, 404, Store)
        ELSE IF ~BcryptCompare(body.oldPassword.s, users[userId].password)
          THEN Return(p, "changePassword", req, 401, Store)
        ELSE Continue(p, [pc |-> "password_write", op |-> "changePassword",
                          req |-> req, pre |-> Store, user |-> users[userId]])

\* const hashedPassword = await bcrypt.hash(newPassword, 10);
\* await user.update({ password: hashedPassword });
ChangePasswordWrite(p, salt, hookSalt) ==
  /\ call[p].pc = "password_write"
  /\ LET row == call[p].user
         hashedPassword == BcryptHash(call[p].req.body.newPassword.s, salt)
         new == BeforeUpdate(row, SetValues(row, [password |-> Str(hashedPassword)]),
                             hookSalt)
     IN /\ users' = UsersAfterUpdate(row, new)
        /\ UNCHANGED <<recipes, favorites, nextUserId, nextRecipeId, deleted>>
        /\ Return(p, "changePassword", call[p].req, 200, call[p].pre)

(***************************************************************************)
(* PUT /me/password of routes/users.js, the route written with queries.    *)
(***************************************************************************)
\* UPDATE users SET password = $1 WHERE id = $2
RawPasswordUpdate(us, userId, hashedPassword) ==
  IF userId \in DOMAIN us
    THEN [us EXCEPT ![userId] = [@ EXCEPT !.password = hashedPassword]]
    ELSE us

RawChangePassword(p, userId, body) ==
  /\ IsIdle(p)
  /\ StoreUnchanged
  /\ LET req == [userId |-> userId, body |-> body]
     IN IF ~Truthy(body.oldPassword) \/ ~Truthy(body.newPassword)
          THEN Return(p, "rawChangePassword", req, 400, Store)
        ELSE IF Len(body.newPassword.s) < MinPasswordLength
          THEN Return(p, "rawChangePassword", req, 400, Store)
        ELSE IF userId \notin DOMAIN users
          THEN Return(p, "rawChangePassword", req, 404, Store)
        ELSE IF ~BcryptCompare(body.oldPassword.s, users[userId].password)
          THEN Return(p, "rawChangePassword", req, 401, Store)
        ELSE Continue(p, [pc |-> "raw_password_write", op |-> "rawChangePassword",
                          req |-> req, pre |-> Store])

\* const hashedPassword = await bcrypt.hash(newPassword, 10);
\* await pool.query('UPDATE users SET password = $1 ... WHERE id = $2')
RawChangePasswordWrite(p, salt) ==
  /\ call[p].pc = "raw_password_write"
  /\ users' = RawPasswordUpdate(users, call[p].req.userId,
                                BcryptHash(call[p].req.body.newPassword.s, salt))
  /\ UNCHANGED <<recipes, favorites, nextUserId, nextRecipeId, deleted>>
  /\ Return(p, "rawChangePassword", call[p].req, 200, call[p].pre)

(***************************************************************************)
(* DELETE /api/users/me                                                    *)
(***************************************************************************)
DeleteAccount(p, userId, body) ==
  /\ IsIdle(p)
  /\ StoreUnchanged
  /\ LET req == [userId |-> userId, body |-> body]
     IN IF ~Truthy(body.password)
          THEN Return(p, "deleteAccount", req, 400, Store)
        ELSE IF userId \notin DOMAIN users
          THEN Return(p, "deleteAccount", req, 404, Store)
        ELSE IF ~BcryptCompare(body.password.s, users[userId].password)
          THEN Return(p, "deleteAccount", req, 401, Store)
        ELSE Continue(p, [pc |-> "account_recipes", op |-> "deleteAccount",
                          req |-> req, pre |-> Store, user |-> users[userId]])

\* A statement the data store fails to execute throws; the handler's catch
\* answers 500.  What earlier statements wrote stays written.
DeleteAccountFails(p) ==
  /\ call[p].pc \in {"account_recipes", "account_favorites", "account_user"}
  /\ StoreUnchanged
  /\ Return(p, "deleteAccount", call[p].req, 500, call[p].pre)

\* await Recipe.destroy({ where: { userId } })
DeleteAccountRecipes(p) ==
  /\ call[p].pc = "account_recipes"
  /\ recipes' = RecipesAfterDelete(RecipesOf(call[p].req.userId))
  /\ Removed(RecipesOf(call[p].req.userId))
  /\ favorites' = FavoritesAfterRecipeDelete(RecipesOf(call[p].req.userId))
  /\ UNCHANGED <<users, nextUserId, nextRecipeId>>
  /\ Continue(p, [call[p] EXCEPT !.pc = "account_favorites"])

\* await Favorite.destroy({ where: { userId } })
DeleteAccountFavorites(p) ==
  /\ call[p].pc = "account_favorites"
  /\ favorites' = {f \in favorites : f.userId # call[p].req.userId}
  /\ UNCHANGED <<users, recipes, nextUserId, nextRecipeId, deleted>>
  /\ Continue(p, [call[p] EXCEPT !.pc = "account_user"])

\* A handler that answers success without the last statement.
DeleteAccountUserSkipped(p) ==
  /\ call[p].pc = "account_user"
  /\ StoreUnchanged
  /\ Return(p, "deleteAccount", call[p].req, 200, call[p].pre)

\* await user.destroy(): DELETE FROM "Users" WHERE id, with ON DELETE CASCADE
\* on Recipes.userId, Favorites.userId and Favorites.recipeId.
DeleteAccountUser(p) ==
  /\ call[p].pc = "account_user"
  /\ LET id == call[p].user.id
     IN /\ users' = Without(users, id)
        /\ recipes' = RecipesAfterDelete(RecipesOf(id))
        /\ Removed(RecipesOf(id))
        /\ favorites' = {f \in favorites : f.userId # id /\ f.recipeId \notin RecipesOf(id)}
        /\ UNCHANGED <<nextUserId, nextRecipeId>>
        /\ Return(p, "deleteAccount", call[p].req, 200, call[p].pre)

(***************************************************************************)
(* The recipe routes: the middleware parseMultipartJSON and the handlers   *)
(* of controllers/recipeController.js.                                     *)
(***************************************************************************)
PlaceholderImage == Str(<<"amala_and_gbegiri_lkovb8.jpg">>)
UploadedImage == Str(<<"recipe-images/upload.jpg">>)

\* parseMultipartJSON: [ok |-> FALSE] when it answers 400 itself.
ParseMultipartJSON(body) ==
  LET ing == body.ingredients
      ins == body.instructions
      parseIng == Truthy(ing) /\ ing.t = "string"
      parseIns == Truthy(ins) /\ ins.t = "string"
  IN IF parseIng /\ ~JSONParse(ing.s).ok THEN [ok |-> FALSE]
     ELSE IF parseIns /\ ~JSONParse(ins.s).ok THEN [ok |-> FALSE]
     ELSE [ok |-> TRUE,
           body |-> [body EXCEPT
             !.ingredients = IF parseIng THEN JSONParse(ing.s).v ELSE @,
             !.instructions = IF parseIns THEN JSONParse(ins.s).v ELSE @,
             !.cookingTime = IF Truthy(@) THEN ParseInt(@) ELSE @,
             !.prepTime = IF Truthy(@) THEN ParseInt(@) ELSE @,
             !.rating = IF Truthy(@) THEN ParseFloat(@) ELSE @]]

\* A destructuring default: it replaces undefined only.
Default(v, d) == IF v.t = "undefined" THEN d ELSE v

\* A test that accepts whatever is truthy.
AnyTruthy(v) == Truthy(v)

\* !v || !Array.isArray(v) || v.length === 0, negated
NonEmptyArray(v) == Truthy(v) /\ v.t = "array" /\ v.a # <<>>

\* The validations of the Recipe model that the fields of `fields` must
\* pass: INTEGER columns hold integers, rating lies in [0, 5], no column is
\* null.
RecipeValid(row, fields) ==
  /\ \A f \in fields : row[f].t \notin {"null", "undefined"}
  /\ \A f \in fields \cap {"cookingTime", "prepTime", "rating"} : row[f].t = "number"
  /\ "rating" \in fields => row.rating.n >= 0 /\ row.rating.n <= MaxRating

RecipeFields ==
  {"name", "category", "cookingTime", "prepTime", "rating", "description",
   "ingredients", "instructions", "image"}

\* An owner that the body can name.
RecipeOwnerFromBody(userId, body) ==
  IF body.userId.t = "number" THEN body.userId.n ELSE userId

\* userId of Recipe.create: req.user.id, whatever the body holds.
RecipeOwner(userId, body) == userId

\* An upload whose failure leaves no image URL.
ImageUrlOrNull(file, uploadOk) ==
  IF file THEN (IF uploadOk THEN UploadedImage ELSE Null) ELSE PlaceholderImage

\* imageUrl of createRecipe: the placeholder, replaced by the URL of the
\* upload when a file was sent and the upload succeeded.
ImageUrl(file, uploadOk) ==
  IF file /\ uploadOk THEN UploadedImage ELSE PlaceholderImage

\* POST /api/recipes.  The store is touched once, by Recipe.create.  The
\* request recorded with the response says whether the uploader was called
\* (uploaded) and whether the upload succeeded (uploadOk).
CreateRecipe(p, userId, rawBody, file, uploadOk) ==
  /\ IsIdle(p)
  /\ nextRecipeId <= MaxRecipes
  /\ LET req == [userId |-> userId, body |-> rawBody, file |-> file,
                 uploaded |-> FALSE, uploadOk |-> file /\ uploadOk]
         mw == ParseMultipartJSON(rawBody)
     IN IF ~mw.ok
          THEN StoreUnchanged /\ Return(p, "createRecipe", req, 400, Store)
        ELSE
          LET body == mw.body
              ingredients == IF body.ingredients.t = "string"
                               THEN ParseJSONField(body.ingredients)
                               ELSE body.ingredients
              instructions == IF body.instructions.t = "string"
                                THEN ParseJSONField(body.instructions)
                                ELSE body.instructions
              row == [id |-> nextRecipeId,
                      userId |-> RecipeOwner(userId, body),
                      name |-> Str(Trim(body.name.s)),
                      category |-> Default(body.category, Str(<<"Nigerian">>)),
                      cookingTime |-> ParseInt(Default(body.cookingTime, Num(30))),
                      prepTime |-> ParseInt(Default(body.prepTime, Num(10))),
                      rating |-> ParseFloat(Default(body.rating, Num(0))),
                      description |-> Str(Trim(Default(body.description, Str(<<>>)).s)),
                      ingredients |-> ingredients,
                      instructions |-> instructions,
                      image |-> ImageUrl(file, uploadOk)]
          IN IF ~Truthy(body.name) \/ Trim(body.name.s) = <<>>
               THEN StoreUnchanged /\ Return(p, "createRecipe", req, 400, Store)
             ELSE IF ~NonEmptyArray(ingredients)
               THEN StoreUnchanged /\ Return(p, "createRecipe", req, 400, Store)
             ELSE IF ~NonEmptyArray(instructions)
               THEN StoreUnchanged /\ Return(p, "createRecipe", req, 400, Store)
             ELSE IF ~RecipeValid(row, RecipeFields)
               THEN \* SequelizeValidationError, caught: 500
                    /\ StoreUnchanged
                    /\ Return(p, "createRecipe", [req EXCEPT !.uploaded = file], 500, Store)
             ELSE IF userId \notin DOMAIN users
               THEN \* foreign key violation, caught: 500; the sequence value
                    \* of the rejected INSERT is spent
                    /\ nextRecipeId' = nextRecipeId + 1
                    /\ UNCHANGED <<users, recipes, favorites, nextUserId, deleted>>
                    /\ Return(p, "createRecipe", [req EXCEPT !.uploaded = file], 500, Store)
             ELSE /\ recipes' = (nextRecipeId :> row) @@ recipes
                  /\ nextRecipeId' = nextRecipeId + 1
                  /\ UNCHANGED <<users, favorites, nextUserId, deleted>>
                  /\ Return(p, "createRecipe", [req EXCEPT !.uploaded = file], 201, Store)

\* allowedFields of updateRecipe.
AllowedFields ==
  {"name", "category", "cookingTime", "prepTime", "rating", "description",
   "ingredients", "instructions"}

\* The updates object updateRecipe builds from the parsed body.
RecipeUpdates(body) ==
  [f \in AllowedFields |->
     IF body[f].t = "undefined" THEN Undefined
     ELSE IF f \in {"ingredients", "instructions"}
       THEN IF body[f].t = "string" THEN ParseJSONField(body[f]) ELSE body[f]
     ELSE IF f \in {"cookingTime", "prepTime"} THEN ParseInt(body[f])
     ELSE IF f = "rating" THEN ParseFloat(body[f])
     ELSE body[f]]

\* An ownership test that lets administrators through.
NotOwnerUnlessAdmin(recipe, userId, role) == recipe.userId # userId /\ role # "admin"

\* The ownership test of updateRecipe and deleteRecipe.
NotOwner(recipe, userId, role) == recipe.userId # userId

\* An update that falls back to the placeholder when the upload fails.
UpdatedImageOrPlaceholder(file, uploadOk) ==
  IF file THEN (IF uploadOk THEN UploadedImage ELSE PlaceholderImage) ELSE Undefined

\* updates.image of updateRecipe: set when a file was sent and the upload
\* succeeded.
UpdatedImage(file, uploadOk) ==
  IF file /\ uploadOk THEN UploadedImage ELSE Undefined

\* PUT /api/recipes/:id, up to the upload of the image.
UpdateRecipe(p, userId, role, id, rawBody, file, uploadOk) ==
  /\ IsIdle(p)
  /\ StoreUnchanged
  /\ LET req == [userId |-> userId, role |-> role, id |-> id, body |-> rawBody,
                 file |-> file, uploaded |-> FALSE, uploadOk |-> file /\ uploadOk]
         mw == ParseMultipartJSON(rawBody)
     IN IF ~mw.ok THEN Return(p, "updateRecipe", req, 400, Store)
        ELSE IF id \notin DOMAIN recipes THEN Return(p, "updateRecipe", req, 404, Store)
        ELSE IF NotOwner(recipes[id], userId, role)
          THEN Return(p, "updateRecipe", req, 403, Store)
        ELSE
          LET updates == RecipeUpdates(mw.body) @@
                           [image |-> UpdatedImage(file, uploadOk)]
          IN IF \A f \in DOMAIN updates : updates[f].t = "undefined"
               THEN Return(p, "updateRecipe", [req EXCEPT !.uploaded = file], 400, Store)
               ELSE Continue(p, [pc |-> "recipe_write", op |-> "updateRecipe",
                                 req |-> [req EXCEPT !.uploaded = file], pre |-> Store,
                                 recipe |-> recipes[id], updates |-> updates])

\* instance.set(updates) of a recipe.
SetRecipeValues(row, updates) ==
  [f \in DOMAIN row |->
     IF f \in DOMAIN updates /\ updates[f].t # "undefined" THEN updates[f] ELSE row[f]]

\* await recipe.update(updates)
UpdateRecipeWrite(p) ==
  /\ call[p].pc = "recipe_write"
  /\ LET row == call[p].recipe
         new == SetRecipeValues(row, call[p].updates)
         changed == Changed(row, new)
     IN IF ~RecipeValid(new, changed)
          THEN \* SequelizeValidationError, caught: 500
               /\ StoreUnchanged
               /\ Return(p, "updateRecipe", call[p].req, 500, call[p].pre)
        ELSE /\ recipes' = IF row.id \in DOMAIN recipes
                             THEN [recipes EXCEPT ![row.id] =
                                     [f \in DOMAIN row |->
                                        IF f \in changed THEN new[f] ELSE @[f]]]
                             ELSE recipes
             /\ UNCHANGED <<users, favorites, nextUserId, nextRecipeId, deleted>>
             /\ Return(p, "updateRecipe", call[p].req, 200, call[p].pre)

\* DELETE /api/recipes/:id
DeleteRecipe(p, userId, role, id) ==
  /\ IsIdle(p)
  /\ StoreUnchanged
  /\ LET req == [userId |-> userId, role |-> role, id |-> id, uploaded |-> FALSE]
     IN IF id \notin DOMAIN recipes THEN Return(p, "deleteRecipe", req, 404, Store)
        ELSE IF NotOwner(recipes[id], userId, role)
          THEN Return(p, "deleteRecipe", req, 403, Store)
        ELSE Continue(p, [pc |-> "recipe_destroy", op |-> "deleteRecipe", req |-> req,
                          pre |-> Store, recipe |-> recipes[id]])

\* await recipe.destroy()
DeleteRecipeDestroy(p) ==
  /\ call[p].pc = "recipe_destroy"
  /\ recipes' = RecipesAfterDelete({call[p].recipe.id})
  /\ Removed({call[p].recipe.id})
  /\ favorites' = FavoritesAfterRecipeDelete({call[p].recipe.id})
  /\ UNCHANGED <<users, nextUserId, nextRecipeId>>
  /\ Return(p, "deleteRecipe", call[p].req, 200, call[p].pre)

\* A lookup that always finds a row.
GetRecipeStatusFound(id) == 200

\* GET /api/recipes/:id
GetRecipeStatus(id) == IF id \in DOMAIN recipes THEN 200 ELSE 404

\* authorName of a recipe read with its user included.
AuthorName(userId) ==
  IF userId \in DOMAIN users
    THEN users[userId].firstName \o <<" ">> \o users[userId].lastName
    ELSE <<"Unknown">>

GetRecipe(p, id) ==
  /\ IsIdle(p)
  /\ StoreUnchanged
  /\ IF GetRecipeStatus(id) = 200 /\ id \in DOMAIN recipes
       THEN Respond(p, "getRecipe", [id |-> id], 200, Store,
                    [id |-> id, userId |-> recipes[id].userId,
                     authorName |-> AuthorName(recipes[id].userId)])
       ELSE Return(p, "getRecipe", [id |-> id], GetRecipeStatus(id), Store)

\* GET /api/recipes: the where clause built from the query string.  The rows
\* are compared on category, the filter whose operator is plain equality.
Matching(rs, query) ==
  {i \in DOMAIN rs : Truthy(query.category) => rs[i].category = query.category}

\* order: [['createdAt', 'DESC']]: the ids of a table grow with createdAt.
RECURSIVE CreatedAtDesc(_)
CreatedAtDesc(S) ==
  IF S = {} THEN <<>>
  ELSE LET m == CHOOSE i \in S : \A j \in S : j <= i
       IN <<m>> \o CreatedAtDesc(S \ {m})

\* An offset counted from page 0.
OffsetZeroBased(page, limit) == page * limit

\* const offset = (parseInt(page) - 1) * parseInt(limit)
Offset(page, limit) == (page - 1) * limit

\* LIMIT limit OFFSET offset
LimitOffset(rows, limit, offset) ==
  IF offset >= Len(rows) \/ limit = 0 THEN <<>>
  ELSE SubSeq(rows, offset + 1,
              IF offset + limit < Len(rows) THEN offset + limit ELSE Len(rows))

\* Math.ceil(totalRecipes / parseInt(limit)), as JSON.stringify writes it:
\* Infinity and NaN become null.
TotalPages(totalRecipes, limit) ==
  IF limit = 0 THEN Null
  ELSE Num(IF totalRecipes % limit = 0 THEN totalRecipes \div limit
           ELSE totalRecipes \div limit + 1)

\* GET /api/recipes, up to await Recipe.findAll(...)
ListRecipes(p, query) ==
  /\ IsIdle(p)
  /\ StoreUnchanged
  /\ LET page == ParseInt(Default(query.page, Num(1)))
         limit == ParseInt(Default(query.limit, Num(20)))
     IN IF page.t = "NaN" \/ limit.t = "NaN" \/ limit.n < 0
             \/ Offset(page.n, limit.n) < 0
          THEN \* the database rejects the LIMIT or OFFSET, caught: 500
               Return(p, "listRecipes", query, 500, Store)
          ELSE Continue(p, [pc |-> "list_count", op |-> "listRecipes",
                            req |-> query, pre |-> Store,
                            page |-> page.n, limit |-> limit.n,
                            rows |-> LimitOffset(CreatedAtDesc(Matching(recipes, query)),
                                                 limit.n, Offset(page.n, limit.n))])

\* await Recipe.count({ where }) and the response
ListRecipesCount(p) ==
  /\ call[p].pc = "list_count"
  /\ StoreUnchanged
  /\ LET totalRecipes == Cardinality(Matching(recipes, call[p].req))
     IN Respond(p, "listRecipes", call[p].req, 200, call[p].pre,
                [recipes |-> call[p].rows,
                 pagination |-> [currentPage |-> call[p].page,
                                 totalPages |-> TotalPages(totalRecipes, call[p].limit),
                                 totalRecipes |-> totalRecipes,
                                 limit |-> call[p].limit]])

\* The favorite toggle: the join row of (userId, recipeId) is removed when
\* present and inserted otherwise; the foreign keys reject a row whose user
\* or recipe is absent.
ToggleFavorite(p, userId, recipeId) ==
  /\ IsIdle(p)
  /\ LET req == [userId |-> userId, recipeId |-> recipeId]
         row == [userId |-> userId, recipeId |-> recipeId]
     IN IF row \in favorites
          THEN /\ favorites' = favorites \ {row}
               /\ UNCHANGED <<users, recipes, nextUserId, nextRecipeId, deleted>>
               /\ Return(p, "toggleFavorite", req, 200, Store)
        ELSE IF userId \notin DOMAIN users \/ recipeId \notin DOMAIN recipes
          THEN StoreUnchanged /\ Return(p, "toggleFavorite", req, 500, Store)
        ELSE /\ favorites' = favorites \cup {row}
             /\ UNCHANGED <<users, recipes, nextUserId, nextRecipeId, deleted>>
             /\ Return(p, "toggleFavorite", req, 201, Store)

(***************************************************************************)
(* The requests of the model.                                              *)
(***************************************************************************)
Ann == <<"A", "n", "n">>
BoPadded == <<" ", "B", "o", " ">>
Lee == <<"L", "e", "e">>
EmailA == <<"a", "@", "x", ".", "i", "o">>
EmailAUpper == <<"A", "@", "X", ".", "i", "o">>
EmailB == <<"b", "@", "x", ".", "i", "o">>
EmailC == <<"c", "@", "x", ".", "i", "o">>
EmailNoAt == <<"a", "x", ".", "i", "o">>
EmailPadded == <<" ", "b", "@", "x", ".", "i", "o">>
EmailShortTld == <<"b", "@", "x", ".", "i">>
Secret == <<"s", "e", "c", "r", "e", "t">>
Hunter == <<"h", "u", "n", "t", "e", "r">>
Abc == <<"a", "b", "c">>

\* The users a bearer token was ever issued for.
Callers == 1 .. (nextUserId - 1)

SignupBodies ==
  {[firstName |-> Str(Ann), lastName |-> Str(Lee), email |-> Str(e), password |-> Str(w)] :
     e \in {EmailA, EmailB}, w \in {Secret, Abc}}
  \cup {[firstName |-> Undefined, lastName |-> Str(Lee), email |-> Str(EmailA),
         password |-> Str(Secret)]}

LoginBodies ==
  {[email |-> Str(e), password |-> w] :
     e \in {EmailA}, w \in {Str(Secret), Str(Hunter), Undefined}}

PasswordBodies ==
  {[oldPassword |-> o, newPassword |-> n] :
     o \in {Str(Secret), Str(Hunter)}, n \in {Str(Hunter), Str(Abc), Undefined}}

AccountBodies == {[password |-> w] : w \in {Str(Secret), Str(Hunter), Undefined}}

NoFields ==
  [name |-> Undefined, category |-> Undefined, cookingTime |-> Undefined,
   prepTime |-> Undefined, rating |-> Undefined, description |-> Undefined,
   ingredients |-> Undefined, instructions |-> Undefined, userId |-> Undefined]

Jollof ==
  [NoFields EXCEPT !.name = Str(<<"J", "o", "l", "l", "o", "f">>),
                   !.ingredients = Str(<<"[", "rice", "]">>),
                   !.instructions = Str(<<"[", "boil", "]">>)]

(***************************************************************************)
(* Spec: sign-up, login, password change and account deletion, one request *)
(* at a time, over users that own recipes and favorites.                   *)
(***************************************************************************)
Next ==
  \/ \E body \in SignupBodies : Signup(1, body)
  \/ \E salt \in Salts : SignupCreate(1, salt)
  \/ \E body \in LoginBodies : Login(1, body)
  \/ \E u \in Callers, body \in PasswordBodies : ChangePassword(1, u, body)
  \/ \E salt \in Salts, hookSalt \in Salts : ChangePasswordWrite(1, salt, hookSalt)
  \/ \E u \in Callers, body \in AccountBodies : DeleteAccount(1, u, body)
  \/ DeleteAccountRecipes(1)
  \/ DeleteAccountFavorites(1)
  \/ DeleteAccountUser(1)
  \/ DeleteAccountFails(1)
  \/ \E u \in Callers : CreateRecipe(1, u, Jollof, FALSE, FALSE)
  \/ \E u \in Callers, r \in DOMAIN recipes : ToggleFavorite(1, u, r)
  \/ \E id \in 1 .. MaxRecipes : GetRecipe(1, id)

Spec == Init /\ [][Next]_vars

(***************************************************************************)
(* SpecProfile: sign-up, profile update and account deletion, one request  *)
(* at a time.  A bearer token outlives the account it was issued for.      *)
(***************************************************************************)
ProfileSignupBodies ==
  {[firstName |-> Str(Ann), lastName |-> Str(Lee), email |-> Str(e),
    password |-> Str(Secret)] : e \in {EmailA, EmailAUpper, EmailNoAt}}

ProfileBodies ==
  {[firstName |-> f, lastName |-> Undefined, email |-> e] :
     f \in {Undefined, Str(BoPadded)},
     e \in {Undefined, Str(EmailAUpper), Str(EmailB), Str(EmailNoAt), Str(EmailPadded),
            Str(EmailShortTld)}}

NextProfile ==
  \/ \E body \in ProfileSignupBodies : Signup(1, body)
  \/ \E salt \in Salts : SignupCreate(1, salt)
  \/ \E u \in Callers, body \in ProfileBodies : UpdateProfile(1, u, body)
  \/ UpdateProfileCheck(1)
  \/ UpdateProfileWrite(1)
  \/ \E u \in Callers : DeleteAccount(1, u, [password |-> Str(Secret)])
  \/ DeleteAccountRecipes(1)
  \/ DeleteAccountFavorites(1)
  \/ DeleteAccountUser(1)

SpecProfile == Init /\ [][NextProfile]_vars

(***************************************************************************)
(* SpecConc: sign-up and profile update, NumProcs requests at a time.      *)
(***************************************************************************)
ConcSignupBodies ==
  {[firstName |-> Str(Ann), lastName |-> Str(Lee), email |-> Str(e),
    password |-> Str(Secret)] : e \in {EmailA, EmailB}}

ConcProfileBodies ==
  {[firstName |-> Undefined, lastName |-> Undefined, email |-> Str(e)] :
     e \in {EmailA, EmailB, EmailC}}

NextConc ==
  \E p \in Procs :
    \/ \E body \in ConcSignupBodies : Signup(p, body)
    \/ \E salt \in Salts : SignupCreate(p, salt)
    \/ \E u \in Callers, body \in ConcProfileBodies : UpdateProfile(p, u, body)
    \/ UpdateProfileCheck(p)
    \/ UpdateProfileWrite(p)

SpecConc == Init /\ [][NextConc]_vars

(***************************************************************************)
(* SpecRecipe: the recipe routes, one request at a time, for two users.    *)
(***************************************************************************)
RecipeIds == 1 .. (nextRecipeId - 1)

CreateBodies ==
  {[Jollof EXCEPT !.userId = Num(2)], [Jollof EXCEPT !.ingredients = Str(<<"[", "]">>)]}

UpdateBodies ==
  {NoFields,
   [NoFields EXCEPT !.ingredients = Str(<<"[", "]">>)],
   [NoFields EXCEPT !.ingredients = Str(<<"{">>)],
   [NoFields EXCEPT !.instructions = Str(<<"7">>)],
   [NoFields EXCEPT !.name = Str(<<"E", "b", "a">>), !.rating = Str(<<"4">>),
                    !.userId = Num(2)]}

NextRecipe ==
  \/ \E body \in ConcSignupBodies : Signup(1, body)
  \/ \E salt \in Salts : SignupCreate(1, salt)
  \/ /\ nextRecipeId <= MaxRecipesEdited
     /\ \E u \in Callers, body \in CreateBodies : CreateRecipe(1, u, body, FALSE, FALSE)
  \/ \E u \in Callers, role \in Roles, id \in RecipeIds, body \in UpdateBodies,
        file \in BOOLEAN, uploadOk \in BOOLEAN :
       UpdateRecipe(1, u, role, id, body, file, uploadOk)
  \/ UpdateRecipeWrite(1)
  \/ \E u \in Callers, role \in Roles, id \in RecipeIds : DeleteRecipe(1, u, role, id)
  \/ DeleteRecipeDestroy(1)
  \/ \E u \in Callers, r \in DOMAIN recipes : ToggleFavorite(1, u, r)

SpecRecipe == Init /\ [][NextRecipe]_vars

(***************************************************************************)
(* SpecCreate: sign-up and recipe creation, one request at a time, with    *)
(* and without an image, the upload succeeding or failing.                 *)
(***************************************************************************)
ValidCreateBodies ==
  {Jollof,
   [Jollof EXCEPT !.ingredients = Arr(<<"rice">>), !.instructions = Arr(<<"boil">>)],
   [Jollof EXCEPT !.name = Str(<<" ", "E", "b", "a">>), !.rating = Str(<<"4">>)]}

InvalidCreateBodies ==
  {[Jollof EXCEPT !.name = Undefined],
   [Jollof EXCEPT !.name = Str(<<" ">>)],
   [Jollof EXCEPT !.ingredients = Undefined],
   [Jollof EXCEPT !.ingredients = Str(<<>>)],
   [Jollof EXCEPT !.ingredients = Str(<<"[", "]">>)],
   [Jollof EXCEPT !.ingredients = Str(<<"7">>)],
   [Jollof EXCEPT !.ingredients = Str(<<"{">>)],
   [Jollof EXCEPT !.ingredients = Arr(<<>>)],
   [Jollof EXCEPT !.instructions = Undefined],
   [Jollof EXCEPT !.instructions = Str(<<"[", "]">>)],
   [Jollof EXCEPT !.instructions = Str(<<"7">>)],
   [Jollof EXCEPT !.instructions = Str(<<"{">>)]}

OutOfRangeCreateBodies == {[Jollof EXCEPT !.rating = Str(<<"9">>)]}

NextCreate ==
  \/ \E body \in ConcSignupBodies : Signup(1, body)
  \/ \E salt \in Salts : SignupCreate(1, salt)
  \/ \E u \in Callers,
        body \in ValidCreateBodies \cup InvalidCreateBodies \cup OutOfRangeCreateBodies,
        file \in BOOLEAN, uploadOk \in BOOLEAN :
       CreateRecipe(1, u, body, file, uploadOk)

SpecCreate == Init /\ [][NextCreate]_vars

(***************************************************************************)
(* SpecRace: the recipe routes and account deletion, NumProcs requests at  *)
(* a time.  Accounts are opened while no other request is in flight.       *)
(***************************************************************************)
AllIdle == \A q \in Procs : IsIdle(q)

RaceUpdateBodies ==
  {[NoFields EXCEPT !.name = Str(<<"E", "b", "a">>)],
   [NoFields EXCEPT !.ingredients = Str(<<"{">>)]}

NextRace ==
  \/ AllIdle /\ \E body \in ConcSignupBodies : Signup(1, body)
  \/ \E salt \in Salts : SignupCreate(1, salt)
  \/ \E p \in Procs :
       \/ /\ nextRecipeId <= MaxRecipesEdited
          /\ \E u \in Callers : CreateRecipe(p, u, Jollof, FALSE, FALSE)
       \/ \E u \in Callers, id \in RecipeIds, body \in RaceUpdateBodies :
            UpdateRecipe(p, u, "user", id, body, FALSE, FALSE)
       \/ UpdateRecipeWrite(p)
       \/ \E u \in Callers, id \in RecipeIds : DeleteRecipe(p, u, "user", id)
       \/ DeleteRecipeDestroy(p)
       \/ \E u \in Callers : DeleteAccount(p, u, [password |-> Str(Secret)])
       \/ DeleteAccountRecipes(p)
       \/ DeleteAccountFavorites(p)
       \/ DeleteAccountUser(p)
       \/ \E id \in RecipeIds : GetRecipe(p, id)
       \/ \E u \in Callers, r \in DOMAIN recipes : ToggleFavorite(p, u, r)

SpecRace == Init /\ [][NextRace]_vars

(***************************************************************************)
(* SpecList: the recipe list over tables that recipes join and leave, one  *)
(* request at a time.                                                      *)
(***************************************************************************)
Soup == <<"S", "o", "u", "p">>

ListCreateBodies == {Jollof, [Jollof EXCEPT !.category = Str(Soup)]}

ListQueries ==
  {[category |-> c, page |-> pg, limit |-> l] :
     c \in {Undefined, Str(Soup)},
     pg \in {Undefined, Str(<<"0">>), Str(<<"1">>), Str(<<"2">>), Str(<<"3">>)},
     l \in {Undefined, Str(<<"0">>), Str(<<"1">>), Str(<<"2">>)}}

NextList ==
  \/ \E body \in ConcSignupBodies : Signup(1, body)
  \/ \E salt \in Salts : SignupCreate(1, salt)
  \/ \E u \in Callers, body \in ListCreateBodies : CreateRecipe(1, u, body, FALSE, FALSE)
  \/ \E u \in Callers, id \in RecipeIds : DeleteRecipe(1, u, "user", id)
  \/ DeleteRecipeDestroy(1)
  \/ \E query \in ListQueries : ListRecipes(1, query)
  \/ ListRecipesCount(1)

SpecList == Init /\ [][NextList]_vars

(***************************************************************************)
(* SpecPublic: the handlers whose responses carry data of a user, one      *)
(* request at a time.                                                      *)
(***************************************************************************)
NextPublic ==
  \/ \E body \in ConcSignupBodies : Signup(1, body)
  \/ \E salt \in Salts : SignupCreate(1, salt)
  \/ \E body \in LoginBodies : Login(1, body)
  \/ \E u \in Callers, body \in ConcProfileBodies : UpdateProfile(1, u, body)
  \/ UpdateProfileCheck(1)
  \/ UpdateProfileWrite(1)
  \/ \E u \in Callers, body \in PasswordBodies : ChangePassword(1, u, body)
  \/ \E salt \in Salts, hookSalt \in Salts : ChangePasswordWrite(1, salt, hookSalt)
  \/ \E u \in Callers : CreateRecipe(1, u, Jollof, FALSE, FALSE)
  \/ \E u \in Callers : GetCurrentUser(1, u)
  \/ GetCurrentUserRecipes(1)
  \/ GetCurrentUserFavorites(1)
  \/ \E id \in Callers : GetUserById(1, id)
  \/ GetUserByIdCount(1)
  \/ \E id \in RecipeIds : GetRecipe(1, id)

SpecPublic == Init /\ [][NextPublic]_vars

(***************************************************************************)
(* SpecRaw: the password change of the controller and that of the route    *)
(* written with queries, over the same table, one request at a time.       *)
(***************************************************************************)
NextRaw ==
  \/ \E body \in ConcSignupBodies : Signup(1, body)
  \/ \E salt \in Salts : SignupCreate(1, salt)
  \/ \E u \in Callers, body \in PasswordBodies : ChangePassword(1, u, body)
  \/ \E salt \in Salts, hookSalt \in Salts : ChangePasswordWrite(1, salt, hookSalt)
  \/ \E u \in Callers, body \in PasswordBodies : RawChangePassword(1, u, body)
  \/ \E salt \in Salts : RawChangePasswordWrite(1, salt)
  \/ \E body \in LoginBodies : Login(1, body)

SpecRaw == Init /\ [][NextRaw]_vars

(***************************************************************************)
(* The claims about Spec.  A claim about what a handler did reads the      *)
(* response it returned in the last step (result) and the store as the     *)
(* request found it (result.pre).                                          *)
(***************************************************************************)
\* hash is a bcrypt hash of the plain text s, whatever the salt.
IsHashOf(s, hash) ==
  /\ Len(hash) = Len(s) + 2
  /\ hash[1] = BcryptPrefix
  /\ SubSeq(hash, 3, Len(hash)) = s

Returned(op) == result.op = op

\* The rows of a store that belong to the user u.
RowsOf(store, u) ==
  [user |-> {i \in DOMAIN store.users : i = u},
   recipes |-> {i \in DOMAIN store.recipes : store.recipes[i].userId = u},
   favorites |-> {f \in store.favorites : f.userId = u}]

\* C1: DeleteAccount is atomic: when one of its three deletion steps fails,
\* the store holds the same Users, Recipes and Favorites as before the call.
C1_DeleteAccountAtomic ==
  (Returned("deleteAccount") /\ result.status = 500) => Store = result.pre

\* C2: after DeleteAccount returns success the store holds no User with that
\* id, no Recipe and no Favorite of that user, and GetRecipe answers NotFound
\* for every recipe the user owned before the call.
C2_DeleteAccountRemovesAll ==
  (Returned("deleteAccount") /\ result.status = 200) =>
    LET u == result.req.userId
    IN /\ u \notin DOMAIN users
       /\ \A r \in DOMAIN recipes : recipes[r].userId # u
       /\ \A f \in favorites : f.userId # u
       /\ \A r \in RowsOf(result.pre, u).recipes : GetRecipeStatus(r) = 404

C2_Witness ==
  /\ Returned("deleteAccount")
  /\ result.status = 200
  /\ RowsOf(result.pre, result.req.userId).recipes # {}
  /\ RowsOf(result.pre, result.req.userId).favorites # {}
  /\ \E f \in result.pre.favorites :
       /\ f.userId # result.req.userId
       /\ f.recipeId \in RowsOf(result.pre, result.req.userId).recipes

\* The request carries a password that is no plain text of the hash stored
\* for the caller.
WrongPassword(password, store, u) ==
  /\ Truthy(password)
  /\ u \in DOMAIN store.users
  /\ ~IsHashOf(password.s, store.users[u].password)

\* C3: DeleteAccount with a password that does not verify against the stored
\* hash answers 401 and leaves Users, Recipes and Favorites as they were.
C3_DeleteAccountWrongPassword ==
  (Returned("deleteAccount")
     /\ WrongPassword(result.req.body.password, result.pre, result.req.userId)) =>
    result.status = 401 /\ Store = result.pre

C3_Witness ==
  /\ Returned("deleteAccount")
  /\ WrongPassword(result.req.body.password, result.pre, result.req.userId)
  /\ result.status = 401
  /\ RowsOf(Store, result.req.userId).recipes # {}
  /\ RowsOf(Store, result.req.userId).favorites # {}

\* The request passes the input validation of changePassword.
ValidPasswordChange(body) ==
  /\ Truthy(body.oldPassword)
  /\ Truthy(body.newPassword)
  /\ Len(body.newPassword.s) >= MinPasswordLength

\* C6, as claimed: ChangePassword with an oldPassword that does not verify
\* against the stored hash always answers 401 and leaves the user unchanged.
C6_WrongOldPasswordAlways401 ==
  (Returned("changePassword")
     /\ WrongPassword(result.req.body.oldPassword, result.pre, result.req.userId)) =>
    result.status = 401 /\ Store = result.pre

\* C6, amended: ChangePassword with an oldPassword that does not verify
\* against the stored hash leaves the stored hash and every other field of
\* every user unchanged; it answers 401 when the request passes the input
\* validation and 400 when it does not.
C6_WrongOldPasswordRejected ==
  (Returned("changePassword")
     /\ WrongPassword(result.req.body.oldPassword, result.pre, result.req.userId)) =>
    /\ Store = result.pre
    /\ result.status = IF ValidPasswordChange(result.req.body) THEN 401 ELSE 400

C6_Witness ==
  /\ Returned("changePassword")
  /\ WrongPassword(result.req.body.oldPassword, result.pre, result.req.userId)
  /\ ValidPasswordChange(result.req.body)
  /\ result.status = 401

\* C7: after ChangePassword returns success the stored value is the hash of
\* newPassword applied once: verification succeeds with newPassword and fails
\* with oldPassword when they differ, and login with newPassword succeeds.
C7_ChangePasswordHashesOnce ==
  (Returned("changePassword") /\ result.status = 200) =>
    LET u == result.req.userId
        old == result.req.body.oldPassword
        new == result.req.body.newPassword
    IN /\ IsHashOf(new.s, users[u].password)
       /\ BcryptCompare(new.s, users[u].password)
       /\ old # new => ~BcryptCompare(old.s, users[u].password)
       /\ LoginStatus(Str(users[u].email), new) = 200

\* The strings tried as passwords: plain texts, the empty string and every
\* stored hash.
PasswordGuesses ==
  {Secret, Hunter, Abc, <<>>} \cup {users[i].password : i \in DOMAIN users}

ByNonOwner ==
  /\ result.op \in {"updateRecipe", "deleteRecipe"}
  /\ result.req.id \in DOMAIN result.pre.recipes
  /\ result.pre.recipes[result.req.id].userId # result.req.userId

BodyRejected ==
  result.op = "updateRecipe" /\ ~ParseMultipartJSON(result.req.body).ok

C5_IngredientsAndInstructionsNonEmpty ==
  \A r \in DOMAIN recipes :
    NonEmptyArray(recipes[r].ingredients) /\ NonEmptyArray(recipes[r].instructions)

(***************************************************************************)
(* The claims about SpecConc and SpecProfile.                              *)
(***************************************************************************)
\* The e-mail the request of p is about to write, its pre-check passed.
AboutToWrite(p, email) ==
  \/ call[p].pc = "signup_create" /\ call[p].req.email.s = email
  \/ call[p].pc = "profile_write" /\ call[p].updates.email = Str(email)

\* C9: no two distinct users hold the same e-mail, in any interleaving of
\* sign-ups and profile updates.
C9_EmailsUnique ==
  \A u \in DOMAIN users : \A v \in DOMAIN users :
    u # v => users[u].email # users[v].email

\* Two requests passed the uniqueness pre-check for the same e-mail, one of
\* them has written it and the other, a profile update, is about to.
C9_Witness ==
  \E p \in Procs :
    /\ AboutToWrite(p, EmailB)
    /\ call[p].op = "updateProfile"
    /\ \E u \in FindUsersByEmail(EmailB) :
         /\ u # call[p].req.userId
         /\ call[p].req.userId \in DOMAIN users
         /\ \A v \in DOMAIN call[p].pre.users : call[p].pre.users[v].email # EmailB

\* C10: every stored e-mail is in lower case.
C10_EmailsLowercase ==
  \A u \in DOMAIN users : users[u].email = ToLowerCase(users[u].email)

\* The normalised e-mail an updateProfile request asks for.
RequestedEmail == Trim(ToLowerCase(result.req.body.email.s))

\* The response is that of an updateProfile for an e-mail that another user,
\* who held a different e-mail when the request arrived, holds now: the two
\* profile updates ran concurrently and the other one won.
LostEmailRace ==
  /\ Returned("updateProfile")
  /\ Truthy(result.req.body.email)
  /\ \E u \in FindUsersByEmail(RequestedEmail) :
       /\ u # result.req.userId
       /\ u \in DOMAIN result.pre.users
       /\ result.pre.users[u].email # RequestedEmail

\* C11: when two UpdateProfile calls by different users race for the same
\* new e-mail, one write is persisted and the other caller is answered 409,
\* not 500.
C11_RaceLoserGetsConflict ==
  LostEmailRace =>
    /\ result.status = 409
    /\ Cardinality(FindUsersByEmail(RequestedEmail)) = 1
    /\ users[result.req.userId].email # RequestedEmail

(***************************************************************************)
(* The claims about SpecProfile: one profile update at a time.             *)
(***************************************************************************)
\* The response is that of an updateProfile with an e-mail, by a user who
\* existed when the request arrived.
ProfileEmailRequest ==
  /\ Returned("updateProfile")
  /\ Truthy(result.req.body.email)
  /\ result.req.userId \in DOMAIN result.pre.users

\* A user other than the caller held the normalised e-mail when the request
\* arrived.
HeldByOther ==
  \E u \in DOMAIN result.pre.users :
    u # result.req.userId /\ result.pre.users[u].email = RequestedEmail

NoProfileField(body) ==
  ~Truthy(body.firstName) /\ ~Truthy(body.lastName) /\ ~Truthy(body.email)

\* C13: UpdateProfile with none of firstName, lastName and email answers
\* 400, and every UpdateProfile that answers an error (400, 404, 409, 500)
\* leaves Users, Recipes and Favorites as they were.
C13_ProfileErrorsChangeNothing ==
  Returned("updateProfile") =>
    /\ NoProfileField(result.req.body) => result.status = 400
    /\ result.status # 200 => Store = result.pre

\* A malformed e-mail rejected in a request whose first name would have
\* changed the caller's row.
C13_Witness ==
  /\ Returned("updateProfile")
  /\ result.status = 400
  /\ Truthy(result.req.body.email)
  /\ Truthy(result.req.body.firstName)
  /\ Trim(result.req.body.firstName.s) # result.pre.users[result.req.userId].firstName
  /\ Store = result.pre

\* C14: a successful UpdateProfile changes only the fields among firstName,
\* lastName and email that the request supplied: the unsupplied ones, the
\* password hash, the role and the id of the caller, every other user, every
\* recipe and every favorite are as they were.
C14_ProfileUpdateFrame ==
  (Returned("updateProfile") /\ result.status = 200) =>
    LET u == result.req.userId
        body == result.req.body
        old == result.pre.users
    IN /\ DOMAIN users = DOMAIN old
       /\ \A v \in DOMAIN users \ {u} : users[v] = old[v]
       /\ recipes = result.pre.recipes
       /\ favorites = result.pre.favorites
       /\ users[u].id = old[u].id
       /\ users[u].password = old[u].password
       /\ users[u].role = old[u].role
       /\ \A f \in {"firstName", "lastName", "email"} :
            ~Truthy(body[f]) => users[u][f] = old[u][f]

\* An update of the e-mail alone that changed it, with another user stored.
C14_Witness ==
  /\ Returned("updateProfile")
  /\ result.status = 200
  /\ ~Truthy(result.req.body.firstName)
  /\ users[result.req.userId].email # result.pre.users[result.req.userId].email
  /\ Cardinality(DOMAIN users) = 2

(***************************************************************************)
(* The claims about SpecCreate.                                            *)
(***************************************************************************)
\* The field of a request denotes a non-empty sequence: an array, or the
\* JSON text of one.
DenotesNonEmptySequence(v) ==
  \/ v.t = "array" /\ v.a # <<>>
  \/ /\ v.t = "string"
     /\ JSONParse(v.s).ok
     /\ JSONParse(v.s).v.t = "array"
     /\ JSONParse(v.s).v.a # <<>>

\* The name is missing or empty after trimming, or ingredients or
\* instructions is missing, no sequence or empty.
InvalidRecipeInput(body) ==
  \/ body.name.t # "string"
  \/ Trim(body.name.s) = <<>>
  \/ ~DenotesNonEmptySequence(body.ingredients)
  \/ ~DenotesNonEmptySequence(body.instructions)

\* C15: CreateRecipe answers 400 and creates no recipe whenever the name is
\* missing or empty after trimming, or ingredients or instructions is
\* missing, not a sequence or empty; the media uploader is not called.
C15_CreateRecipeRejectsInvalid ==
  (Returned("createRecipe") /\ InvalidRecipeInput(result.req.body)) =>
    /\ result.status = 400
    /\ Store = result.pre
    /\ ~result.req.uploaded

\* A request with an image whose ingredients are the JSON text of a number,
\* rejected while a recipe is stored.
C15_Witness ==
  /\ Returned("createRecipe")
  /\ result.req.body.ingredients = Str(<<"7">>)
  /\ result.req.file
  /\ result.status = 400
  /\ recipes # <<>>

\* The request passes the validation of the input, its times, when
\* supplied, are numbers and its rating, when supplied, lies in the domain
\* of the column.
ValidRecipeRequest(body) ==
  /\ ~InvalidRecipeInput(body)
  /\ \A f \in {"cookingTime", "prepTime"} :
       body[f].t # "undefined" => ParseInt(body[f]).t = "number"
  /\ body.rating.t # "undefined" =>
       /\ ParseFloat(body.rating).t = "number"
       /\ ParseFloat(body.rating).n \in 0 .. MaxRating

\* C16: every valid CreateRecipe request persists one recipe whose owner is
\* the authenticated user and whose image is the URL of the upload when an
\* image was supplied and the upload succeeded, and the placeholder
\* otherwise; a failed upload does not abort the creation.
C16_CreateRecipePersists ==
  (Returned("createRecipe") /\ ValidRecipeRequest(result.req.body)
     /\ result.req.userId \in DOMAIN result.pre.users) =>
    /\ result.status = 201
    /\ result.req.uploaded = result.req.file
    /\ \E r \in DOMAIN recipes :
         /\ DOMAIN recipes = DOMAIN result.pre.recipes \cup {r}
         /\ r \notin DOMAIN result.pre.recipes
         /\ \A q \in DOMAIN result.pre.recipes : recipes[q] = result.pre.recipes[q]
         /\ recipes[r].userId = result.req.userId
         /\ recipes[r].image = IF result.req.file /\ result.req.uploadOk
                                 THEN UploadedImage ELSE PlaceholderImage

\* A recipe created by the second user with the placeholder image after the
\* upload of the image sent with the request failed.
C16_Witness ==
  /\ Returned("createRecipe")
  /\ result.status = 201
  /\ result.req.file
  /\ ~result.req.uploadOk
  /\ result.req.userId = 2
  /\ \E r \in DOMAIN recipes \ DOMAIN result.pre.recipes :
       recipes[r].image = PlaceholderImage /\ recipes[r].userId = 2

(***************************************************************************)
(* More claims about SpecRecipe.                                           *)
(***************************************************************************)
\* The response is that of an updateRecipe by the owner of a recipe that
\* existed when the request arrived, with a body the middleware accepts.
ByOwner ==
  /\ Returned("updateRecipe")
  /\ result.req.id \in DOMAIN result.pre.recipes
  /\ result.pre.recipes[result.req.id].userId = result.req.userId
  /\ ParseMultipartJSON(result.req.body).ok

\* The fields of the body that the request supplies.
Supplied(body) == {f \in AllowedFields : body[f].t # "undefined"}

\* C17: an UpdateRecipe by the owner with an image whose upload fails is not
\* answered an error, whatever other fields it supplies, none included:
\* every supplied field is applied and the stored image is unchanged.
C17_UploadFailureNonFatal ==
  (ByOwner /\ result.req.file /\ ~result.req.uploadOk) =>
    LET id == result.req.id
        body == result.req.body
        parsed == RecipeUpdates(ParseMultipartJSON(body).body)
    IN /\ result.status = 200
       /\ id \in DOMAIN recipes
       /\ recipes[id].image = result.pre.recipes[id].image
       /\ \A f \in Supplied(body) : recipes[id][f] = parsed[f]

\* C18: a successful UpdateRecipe changes only the fields among name,
\* category, cookingTime, prepTime, rating, description, ingredients and
\* instructions that the request supplied, and the image when an upload
\* succeeded: the other fields of the recipe, its id and owner included,
\* every other recipe, every user and every favorite are as they were.
C18_UpdateRecipeFrame ==
  (Returned("updateRecipe") /\ result.status = 200) =>
    LET id == result.req.id
        old == result.pre.recipes
    IN /\ users = result.pre.users
       /\ favorites = result.pre.favorites
       /\ DOMAIN recipes = DOMAIN old
       /\ \A r \in DOMAIN recipes \ {id} : recipes[r] = old[r]
       /\ recipes[id].id = old[id].id
       /\ recipes[id].userId = old[id].userId
       /\ \A f \in AllowedFields \ Supplied(result.req.body) :
            recipes[id][f] = old[id][f]
       /\ ~result.req.uploadOk => recipes[id].image = old[id].image

\* An update of the name and the rating alone, sent with an image whose
\* upload failed, of a recipe that holds an uploaded image and a favorite.
C18_Witness ==
  /\ Returned("updateRecipe")
  /\ result.status = 200
  /\ result.req.file
  /\ ~result.req.uploadOk
  /\ recipes[result.req.id].image = UploadedImage
  /\ recipes[result.req.id].name # result.pre.recipes[result.req.id].name
  /\ \E f \in favorites : f.recipeId = result.req.id

\* C19: the owner of a recipe never changes: in every step, a recipe that
\* stays stored keeps its userId, and a recipe that appears was created by a
\* CreateRecipe call, under an id never used before, with the userId of the
\* authenticated caller, whatever the body of the request holds.
C19_OwnershipImmutable ==
  [][\A r \in DOMAIN recipes' :
       IF r \in DOMAIN recipes
         THEN recipes'[r].userId = recipes[r].userId
         ELSE /\ result'.op = "createRecipe"
              /\ recipes'[r].userId = result'.req.userId
              /\ r >= nextRecipeId]_vars

\* The owner updated a recipe with a body that names another user as userId,
\* after creating it with such a body, and still owns it.
C19_Witness ==
  /\ Returned("updateRecipe")
  /\ result.status = 200
  /\ result.req.userId = 1
  /\ result.req.body.userId = Num(2)
  /\ recipes[result.req.id].userId = 1
  /\ 2 \in DOMAIN users

\* C20: after DeleteRecipe by the owner answers success the recipe is not
\* stored and no favorite of any user references it; DeleteRecipe on an id
\* that is not stored answers 404 and changes nothing.
C20_DeleteRecipeCascades ==
  Returned("deleteRecipe") =>
    LET id == result.req.id
    IN /\ result.status = 200 =>
            /\ id \in DOMAIN result.pre.recipes
            /\ result.pre.recipes[id].userId = result.req.userId
            /\ id \notin DOMAIN recipes
            /\ \A f \in favorites : f.recipeId # id
            /\ GetRecipeStatus(id) = 404
       /\ id \notin DOMAIN result.pre.recipes =>
            result.status = 404 /\ Store = result.pre

\* The owner deleted a recipe that another user had favorited.
C20_Witness ==
  /\ Returned("deleteRecipe")
  /\ result.status = 200
  /\ \E f \in result.pre.favorites :
       f.recipeId = result.req.id /\ f.userId # result.req.userId


(***************************************************************************)
(* The claims about SpecRace.                                              *)
(***************************************************************************)
\* A request on a recipe id that arrived after the recipe was removed.
OnDeletedRecipe ==
  /\ result.op \in {"getRecipe", "updateRecipe", "deleteRecipe"}
  /\ result.req.id \in deleted
  /\ result.req.id \notin DOMAIN result.pre.recipes

PageOf(query) == ParseInt(Default(query.page, Num(1)))
LimitOf(query) == ParseInt(Default(query.limit, Num(20)))

WithCredentials(us, id, email, password) ==
  [us EXCEPT ![id] = [@ EXCEPT !.email = email, !.password = password]]

\* The password column, before and after the request.
StoredHashes ==
  {users[i].password : i \in DOMAIN users}
    \cup {result.pre.users[i].password : i \in DOMAIN result.pre.users}

\* A user object of a response carries no password field and no stored hash
\* in a text field.
NoHashIn(object) ==
  /\ "password" \notin DOMAIN object
  /\ \A f \in DOMAIN object \cap {"firstName", "lastName", "email"} :
       object[f] \notin StoredHashes

\* C23: the answer of GET /api/users/:id is the same whatever the e-mail and
\* the password of the user are, and no response that carries data of a user
\* (sign-up, login, profile, profile update, public profile, recipe detail)
\* carries a password hash.
C23_NoCredentialInResponses ==
  /\ (Returned("getUserById") /\ result.status = 200) =>
       \A email \in {EmailA, EmailB, EmailC},
          password \in {BcryptHash(Secret, 1), BcryptHash(Hunter, 1), Secret} :
         LET id == result.req.id
             us == WithCredentials(result.pre.users, id, email, password)
             rs == result.pre.recipes
         IN result.body =
              PublicProfile(Attributes(us[id], PublicAttributes),
                            Cardinality({r \in DOMAIN rs : rs[r].userId = id}))
  /\ (result.op \in {"signup", "login"} /\ result.status \in {200, 201}) =>
       /\ NoHashIn(result.body.user)
       /\ NoHashIn(result.body.token)
  /\ (Returned("updateProfile") /\ result.status = 200) => NoHashIn(result.body.user)
  /\ (result.op \in {"getCurrentUser", "getUserById"} /\ result.status = 200) =>
       NoHashIn(result.body)
  /\ (Returned("getRecipe") /\ result.status = 200) =>
       result.body.authorName \notin StoredHashes

\* The public profile of a user who owns a recipe and has changed the
\* password.
C23_Witness ==
  /\ Returned("getUserById")
  /\ result.status = 200
  /\ result.body.recipesCount = 1
  /\ ~IsHashOf(Secret, users[result.req.id].password)

\* A login for the e-mail of a user, with a password that does not verify.
LoginWrongPassword ==
  /\ Returned("login")
  /\ Truthy(result.req.email)
  /\ Truthy(result.req.password)
  /\ \E u \in DOMAIN result.pre.users :
       /\ result.pre.users[u].email = result.req.email.s
       /\ ~IsHashOf(result.req.password.s, result.pre.users[u].password)

\* A well-formed sign-up for an e-mail that a user holds.
SignupEmailTaken ==
  /\ Returned("signup")
  /\ Truthy(result.req.firstName) /\ Truthy(result.req.lastName)
  /\ Truthy(result.req.email) /\ Truthy(result.req.password)
  /\ Len(result.req.password.s) >= MinPasswordLength
  /\ \E u \in DOMAIN result.pre.users :
       result.pre.users[u].email = result.req.email.s

\* C24: a wrong password is answered 401 by login, changePassword and
\* deleteAccount, and an e-mail that another user holds is answered 409 by
\* sign-up and updateProfile.
C24_RejectionStatuses ==
  /\ LoginWrongPassword => result.status = 401
  /\ (Returned("changePassword") /\ ValidPasswordChange(result.req.body)
        /\ WrongPassword(result.req.body.oldPassword, result.pre, result.req.userId)) =>
       result.status = 401
  /\ (Returned("deleteAccount")
        /\ WrongPassword(result.req.body.password, result.pre, result.req.userId)) =>
       result.status = 401
  /\ SignupEmailTaken => result.status = 409
  /\ (ProfileEmailRequest /\ EmailRegexTest(result.req.body.email.s) /\ HeldByOther) =>
       result.status = 409

(***************************************************************************)
(* More claims about SpecCreate, Spec and SpecRace.                        *)
(***************************************************************************)
\* C25: in production a failure that a handler of the account or recipe
\* routes catches is answered 500 with no details taken from the error.
C25_NoDetailsInProduction ==
  (result.op \notin {"none", "toggleFavorite"} /\ result.status = 500) =>
    result.details = Undefined

\* C26: a deleteAccount that passed the password check removes the favorites
\* of the user first, then the recipes, then the user: when it is about to
\* remove the recipes no favorite of the user is left, and when it is about to
\* remove the user no recipe of the user is left.
C26_FavoritesRecipesUser ==
  \A p \in Procs :
    /\ call[p].pc = "account_recipes" =>
         {f \in favorites : f.userId = call[p].req.userId} = {}
    /\ call[p].pc = "account_user" =>
         /\ {f \in favorites : f.userId = call[p].req.userId} = {}
         /\ RecipesOf(call[p].req.userId) = {}

\* C27: whenever no request is in flight, every recipe belongs to a stored
\* user and every favorite joins a stored user and a stored recipe, whatever
\* the interleaving of createRecipe, deleteRecipe and deleteAccount was.
C27_ReferentialIntegrity ==
  AllIdle =>
    /\ \A r \in DOMAIN recipes : recipes[r].userId \in DOMAIN users
    /\ \A f \in favorites : f.userId \in DOMAIN users /\ f.recipeId \in DOMAIN recipes

\* An account deletion has completed that began before the only user created
\* a recipe: the recipe is gone with the user.
C27_Witness ==
  /\ AllIdle
  /\ Returned("deleteAccount")
  /\ result.status = 200
  /\ RecipesOf(result.req.userId) = {}
  /\ result.pre.recipes = <<>>
  /\ deleted # {}
  /\ nextUserId = 2

\* The rating that the request asks for lies outside 0 .. MaxRating.
RatingOutOfRange(body) ==
  /\ Truthy(body.rating)
  /\ ParseFloat(body.rating).t = "number"
  /\ ParseFloat(body.rating).n < 0 \/ ParseFloat(body.rating).n > MaxRating

\* C28: every stored recipe has a rating from 0 to MaxRating, and a
\* createRecipe, or an updateRecipe by the owner, that asks for a rating
\* outside of that range is answered 400 and writes nothing.
C28_RatingInRange ==
  /\ \A r \in DOMAIN recipes :
       /\ recipes[r].rating.t = "number"
       /\ recipes[r].rating.n >= 0
       /\ recipes[r].rating.n <= MaxRating
  /\ (Returned("createRecipe") /\ RatingOutOfRange(result.req.body)) =>
       result.status = 400 /\ Store = result.pre
  /\ (ByOwner /\ RatingOutOfRange(result.req.body)) =>
       result.status = 400 /\ Store = result.pre

\* C29: an updateRecipe that answers success has written to a stored recipe:
\* when it returns 200 the recipe exists, also when a deleteRecipe or a
\* deleteAccount ran between its ownership check and its write.
C29_UpdateSuccessTookEffect ==
  (Returned("updateRecipe") /\ result.status = 200) =>
    result.req.id \in DOMAIN recipes

(***************************************************************************)
(* The claim about SpecRaw.                                                *)
(***************************************************************************)
\* Two tables of users hold the same users with the same fields and
\* passwords that the same strings verify against.
SameUsers(a, b) ==
  /\ DOMAIN a = DOMAIN b
  /\ \A i \in DOMAIN a :
       /\ \A f \in {"id", "firstName", "lastName", "email", "role"} : a[i][f] = b[i][f]
       /\ \A w \in {Secret, Hunter, Abc} :
            BcryptCompare(w, a[i].password) = BcryptCompare(w, b[i].password)

\* C30: the controllers and the routes written with queries are equivalent;
\* in particular a password change that the controller answers with success
\* leaves the users that the route's password change leaves from the same
\* table for the same request, with the same verifiable passwords.
C30_ImplementationsEquivalent ==
  (Returned("changePassword") /\ result.status = 200) =>
    \E salt \in Salts :
      SameUsers(users,
                RawPasswordUpdate(result.pre.users, result.req.userId,
                                  BcryptHash(result.req.body.newPassword.s, salt)))
====
